---- MODULE Spec2Model ----
(***************************************************************************)
(* A model of my_processing.py: the sequence extraction and padding of     *)
(* load_dataset / pad_collate and the concept-graph builders.              *)
(*                                                                         *)
(* Matrices are functions over 0..n-1 (numpy's 0-based indexing); python   *)
(* lists are TLA+ sequences, so list[i] is written list[i + 1].  Matrix    *)
(* entries are exact rationals <<numerator, denominator>> in lowest terms: *)
(* the float rounding of numpy/torch is not modelled.                      *)
(***************************************************************************)
EXTENDS Integers, Sequences, FiniteSets, TLC

VARIABLES
    pc,             \* position in the function being run
    graph_type,     \* load_dataset's graph_type argument
    question_list,  \* per student, the list of concept indices
    seq_len_list,   \* per student, the length of the sequence
    indices,        \* train_dataset.indices
    student_num,
    concept_num,
    kcs,            \* sorted concept-id universe (kc_dedup_smath11.csv)
    gt,             \* rows of the relation table a builder reads
    dkt_file,       \* matrix held by the file at dkt_graph_path
    graph,          \* the matrix under construction / returned
    question_list_alt,  \* a second data set, equal on the training split
    seq_len_list_alt,
    graph_alt,      \* the matrix built from the second data set
    table,          \* the rows read from file_path
    df,             \* load_dataset's data frame
    use_binary,
    res_len,
    feature_list,
    answer_list,
    batch,          \* the samples handed to pad_collate
    feature_pad,
    question_pad,
    answer_pad

alt_vars == <<question_list_alt, seq_len_list_alt, graph_alt>>

load_vars == <<table, df, use_binary, res_len, feature_list, answer_list, batch,
               feature_pad, question_pad, answer_pad>>

vars == <<pc, graph_type, question_list, seq_len_list, indices, student_num,
          concept_num, kcs, gt, dkt_file, graph, alt_vars, load_vars>>

(***************************************************************************)
(* Bounds of the model                                                     *)
(***************************************************************************)
MaxRows == 4        \* interaction rows of a data set, over all students
MaxConcepts == 4    \* distinct concepts of a data set
MaxGt == 2          \* rows of a relation table
MaxTableRows == 2   \* rows of an interaction table with arbitrary cells
MaxPadRows == 5     \* rows of an interaction table with patterned cells

(***************************************************************************)
(* Program constants                                                       *)
(***************************************************************************)
Locality == 6       \* two-hop proximity filter: abs(...) < 6
TopK == 5           \* relations taken per concept by MyERF / MyFIR
PadValue == -1      \* padding_value of pad_sequence

(***************************************************************************)
(* Exact arithmetic on non-negative rationals                              *)
(***************************************************************************)
RECURSIVE GCD(_, _)
GCD(a, b) == IF b = 0 THEN a ELSE GCD(b, a % b)

Rat(n, d) == LET g == GCD(n, d) IN <<n \div g, d \div g>>

Zero == <<0, 1>>
One == <<1, 1>>

RAdd(x, y) == Rat(x[1] * y[2] + y[1] * x[2], x[2] * y[2])
RMul(x, y) == Rat(x[1] * y[1], x[2] * y[2])
RDiv(x, y) == Rat(x[1] * y[2], x[2] * y[1])

Abs(x) == IF x < 0 THEN -x ELSE x

Idx(n) == 0 .. (n - 1)

RECURSIVE SumTo(_, _)
\* f[0] + ... + f[k - 1]
SumTo(f, k) == IF k = 0 THEN Zero ELSE RAdd(SumTo(f, k - 1), f[k - 1])

\* a row sum that stops one column short
RowSumShort(g, n, i) == SumTo(g[i], n - 1)

\* graph.sum(1)[i] / graph[i].sum()
RowSum(g, n, i) == SumTo(g[i], n)

\* np.zeros((n, n))
zeros(n) == [i \in Idx(n) |-> [j \in Idx(n) |-> Zero]]

\* ascending list of the members of a set of integers
RECURSIVE SortedSeq(_)
SortedSeq(S) ==
    IF S = {} THEN <<>>
    ELSE LET m == CHOOSE x \in S : \A y \in S : x <= y
         IN <<m>> \o SortedSeq(S \ {m})

(***************************************************************************)
(* Transition counting, lines 142-153 (repeated at 271-282 and 316-327)    *)
(***************************************************************************)
\* student_dict = dict(zip(indices, np.arange(student_num))): its key set
student_dict(idx, sn) == {idx[k] : k \in 1 .. (IF Len(idx) < sn THEN Len(idx) ELSE sn)}

\* a loop that skips no student
SkippedNever(i, idx, sn) == FALSE

\* "if i not in student_dict: continue"
Skipped(i, idx, sn) == i \notin student_dict(idx, sn)

\* the number of times graph[r, c] += 1 runs
Increments(ql, sl, idx, sn, r, c) ==
    Cardinality({ij \in UNION {{<<i, j>> : j \in Idx(sl[i + 1] - 1)} : i \in Idx(sn)} :
                    /\ ~Skipped(ij[1], idx, sn)
                    /\ ql[ij[1] + 1][ij[2] + 1] = r
                    /\ ql[ij[1] + 1][ij[2] + 2] = c})

CountTransitions(ql, sl, idx, sn, cn) ==
    [r \in Idx(cn) |-> [c \in Idx(cn) |-> <<Increments(ql, sl, idx, sn, r, c), 1>>]]

\* np.fill_diagonal(graph, 0)
fill_diagonal(g, n) == [r \in Idx(n) |-> [c \in Idx(n) |-> IF r = c THEN Zero ELSE g[r][c]]]

(***************************************************************************)
(* Row normalization of build_transition_graph, lines 155-163              *)
(***************************************************************************)
inv(x) == IF x = Zero THEN x ELSE RDiv(One, x)

r_mat_inv(g, n) == [r \in Idx(n) |-> [c \in Idx(n) |-> IF r = c THEN inv(RowSum(g, n, r)) ELSE Zero]]

\* a.dot(b) for n x n matrices
dot(a, b, n) ==
    [r \in Idx(n) |-> [c \in Idx(n) |-> SumTo([k \in Idx(n) |-> RMul(a[r][k], b[k][c])], n)]]

(***************************************************************************)
(* Row normalization of the other builders, lines 186-188 and copies       *)
(***************************************************************************)
NormalizeRows(g, n) ==
    [i \in Idx(n) |->
        IF RowSum(g, n, i) # Zero
        THEN [j \in Idx(n) |-> RDiv(g[i][j], RowSum(g, n, i))]
        ELSE g[i]]

\* "if graph[i][j] != 0: graph[i][j] /= graph[i][j]", lines 284-287, 349-352
Binarize(g, n) ==
    [i \in Idx(n) |-> [j \in Idx(n) |-> IF g[i][j] # Zero THEN RDiv(g[i][j], g[i][j]) ELSE g[i][j]]]

(***************************************************************************)
(* Two-hop expansion, lines 294-302 and 334-342                            *)
(***************************************************************************)
\* int(s[-2:]) of a concept-id string, held as its list of digits
LastTwoInt(s) == 10 * s[Len(s) - 1] + s[Len(s)]

\* list(np.where(np.array(graph).T[c] == 1))[0].tolist()
where(g, n, c) == SortedSeq({r \in Idx(n) : g[r][c] = One})

RECURSIVE HopLoop(_, _, _, _, _)
\* for h in range(len(hops)), from position h on
HopLoop(g, hops, h, i, kc) ==
    IF h >= Len(hops) THEN g
    ELSE HopLoop(IF Abs(LastTwoInt(kc[hops[h + 1] + 1]) - LastTwoInt(kc[i + 1])) < Locality
                 THEN [g EXCEPT ![hops[h + 1]][i] = One]
                 ELSE g,
                 hops, h + 1, i, kc)

RECURSIVE PresLoop(_, _, _, _, _, _)
\* for p in range(len(pres)), from position p on
PresLoop(g, n, pres, p, i, kc) ==
    IF p >= Len(pres) THEN g
    ELSE PresLoop(HopLoop(g, where(g, n, pres[p + 1]), 0, i, kc), n, pres, p + 1, i, kc)

\* the last value of i the loop "for i in range(len(kcs)-1, 0, -1)" takes
LastI == 1

RECURSIVE TwoHopLoop(_, _, _, _)
\* for i in range(len(kcs)-1, 0, -1), from value i on
TwoHopLoop(g, n, i, kc) ==
    IF i < LastI THEN g
    ELSE TwoHopLoop(PresLoop(g, n, where(g, n, i), 0, i, kc), n, i - 1, kc)

\* the two-hop builders up to the expansion, as functions of their arguments
BinarizedTransitions(ql, sl, idx, sn, cn) ==
    Binarize(fill_diagonal(CountTransitions(ql, sl, idx, sn, cn), cn), cn)

(***************************************************************************)
(* Concept-id strings: lists of digit characters                           *)
(***************************************************************************)
RECURSIVE StrLess(_, _)
\* python's s < t on strings
StrLess(s, t) ==
    IF t = <<>> THEN FALSE
    ELSE IF s = <<>> THEN TRUE
    ELSE IF s[1] # t[1] THEN s[1] < t[1]
    ELSE StrLess(Tail(s), Tail(t))

RECURSIVE SortedStrs(_)
\* sorted(set(...)) / .unique().tolist() followed by .sort()
SortedStrs(S) ==
    IF S = {} THEN <<>>
    ELSE LET m == CHOOSE x \in S : \A y \in S \ {x} : StrLess(x, y)
         IN <<m>> \o SortedStrs(S \ {m})

Range(s) == {s[k] : k \in 1 .. Len(s)}

\* list.index(x), 0-based; the caller checks x \in Range(l) (else ValueError)
index(l, x) == (CHOOSE k \in 1 .. Len(l) : l[k] = x /\ \A m \in 1 .. (k - 1) : l[m] # x) - 1

RECURSIVE MarkEdges(_, _, _, _)
\* for i in range(len(edges)): graph[index(a)][index(b)] = 1, from row i on
MarkEdges(g, kc, edges, i) ==
    IF i >= Len(edges) THEN g
    ELSE MarkEdges([g EXCEPT ![index(kc, edges[i + 1][1])][index(kc, edges[i + 1][2])] = One],
                   kc, edges, i + 1)

(***************************************************************************)
(* normed_adj_graph, lines 176-191                                         *)
(***************************************************************************)
gt_kcs(rows) == SortedStrs({r.from : r \in Range(rows)} \cup {r.to : r \in Range(rows)})

gt_edges(rows) == [k \in 1 .. Len(rows) |-> <<rows[k].from, rows[k].to>>]

normed_adj_graph(rows) ==
    LET kc == gt_kcs(rows)
    IN NormalizeRows(MarkEdges(zeros(Len(kc)), kc, gt_edges(rows), 0), Len(kc))

(***************************************************************************)
(* normed_adj_hmm_graph, lines 194-215                                     *)
(***************************************************************************)
IsForward(r) == r.hmm_direction = "forward"

hmm_edges(rows) ==
    LET fw == SelectSeq(rows, IsForward)
    IN [k \in 1 .. Len(fw) |-> <<fw[k].before, fw[k].after>>]

\* every kcs.index(...) of the edge loop finds its argument
EdgesKnown(kc, edges) ==
    \A k \in 1 .. Len(edges) : edges[k][1] \in Range(kc) /\ edges[k][2] \in Range(kc)

normed_adj_hmm_graph(rows, kc) ==
    NormalizeRows(MarkEdges(zeros(Len(kc)), kc, hmm_edges(rows), 0), Len(kc))

(***************************************************************************)
(* normed_adj_ERF_graph, lines 219-239                                     *)
(***************************************************************************)
Prefix(s, k) == SubSeq(s, 1, IF Len(s) < k THEN Len(s) ELSE k)

\* gt[gt.before == kcs[i]]['after'].tolist()[:5]
now_rels(rows, id) ==
    LET Hit(r) == r.before = id
        hit == SelectSeq(rows, Hit)
    IN Prefix([k \in 1 .. Len(hit) |-> hit[k].after], TopK)

\* for j in range(5): graph[i][kcs.index(rels[j])] = 1 for every i
top_edges(kc, rels) ==
    [e \in 1 .. (Len(kc) * TopK) |->
        <<kc[((e - 1) \div TopK) + 1], rels[((e - 1) \div TopK) + 1][((e - 1) % TopK) + 1]>>]

\* rels[i][j] exists for every j in range(5), and kcs.index finds it
TopKnown(kc, rels) ==
    \A i \in 1 .. Len(kc) :
        /\ Len(rels[i]) >= TopK
        /\ \A j \in 1 .. TopK : rels[i][j] \in Range(kc)

erf_rels(rows, kc) == [i \in 1 .. Len(kc) |-> now_rels(rows, kc[i])]

normed_adj_ERF_graph(rows, kc) ==
    NormalizeRows(MarkEdges(zeros(Len(kc)), kc, top_edges(kc, erf_rels(rows, kc)), 0), Len(kc))

(***************************************************************************)
(* normed_adj_FIR_graph, lines 243-266                                     *)
(***************************************************************************)
\* the targets of kcs with no row in the table: idxmax of an empty series raises
HasRow(rows, id) == \E k \in 1 .. Len(rows) : rows[k].target = id

\* gt[gt.target == target]['auc'].idxmax(): the first row holding the largest auc
idxmax(rows, id) ==
    CHOOSE t \in 1 .. Len(rows) :
        /\ rows[t].target = id
        /\ \A k \in 1 .. Len(rows) : rows[k].target = id =>
              \/ rows[k].auc < rows[t].auc
              \/ (rows[k].auc = rows[t].auc /\ t <= k)

best_sets(rows, kc) == [i \in 1 .. Len(kc) |-> Prefix(rows[idxmax(rows, kc[i])].rel, TopK)]

normed_adj_FIR_graph(rows, kc) ==
    NormalizeRows(MarkEdges(zeros(Len(kc)), kc, top_edges(kc, best_sets(rows, kc)), 0), Len(kc))

(***************************************************************************)
(* build_transition_graph, lines 141-166                                   *)
(***************************************************************************)
TransitionNormalize(g, n) == dot(r_mat_inv(g, n), g, n)

(***************************************************************************)
(* two_hop_transition_graph, lines 270-311                                 *)
(***************************************************************************)
two_hop_transition_graph(ql, sl, idx, sn, cn, kc) ==
    LET g == BinarizedTransitions(ql, sl, idx, sn, cn)
    IN NormalizeRows(TwoHopLoop(g, cn, Len(kc) - 1, kc), cn)

(***************************************************************************)
(* two_hop_transition_daekyo_graph, lines 315-361                          *)
(***************************************************************************)
\* np.array(graph) + np.array(d_graph) of an n x n and an m x m matrix:
\* defined when the shapes agree or numpy can broadcast a 1 x 1 operand
CanAdd(n, m) == n = m \/ m = 1 \/ n = 1

AddedShape(n, m) == IF n = 1 THEN m ELSE n

MatAdd(g, n, d, m) ==
    LET k == AddedShape(n, m)
    IN [i \in Idx(k) |-> [j \in Idx(k) |->
            RAdd(IF n = 1 THEN g[0][0] ELSE g[i][j], IF m = 1 THEN d[0][0] ELSE d[i][j])]]


\* len(graph)
Shape(g) == Cardinality(DOMAIN g)

two_hop_transition_daekyo_graph(ql, sl, idx, sn, cn, kc, rows) ==
    LET g == TwoHopLoop(fill_diagonal(CountTransitions(ql, sl, idx, sn, cn), cn),
                        cn, Len(kc) - 1, kc)
        d == normed_adj_graph(rows)
        k == AddedShape(cn, Shape(d))
    IN NormalizeRows(Binarize(MatAdd(g, cn, d, Shape(d)), k), k)

(***************************************************************************)
(* build_dkt_graph, lines 169-173                                          *)
(***************************************************************************)
\* "assert graph.shape[0] == concept_num and graph.shape[1] == concept_num"
ShapeOk(file, cn) == Len(file) = cn /\ \A r \in 1 .. Len(file) : Len(file[r]) = cn

build_dkt_graph(file, cn) == [i \in Idx(cn) |-> [j \in Idx(cn) |-> file[i + 1][j + 1]]]

(***************************************************************************)
(* The inputs the builders are run on                                      *)
(***************************************************************************)
NoInput == <<>>

RECURSIVE Datasets(_)
\* lists of student sequences, each of two rows or more, of at most
\* `budget` rows in all
Datasets(budget) ==
    {<<>>} \cup UNION {{<<s>> \o rest : s \in [1 .. n -> Idx(MaxConcepts)],
                                        rest \in Datasets(budget - n)} :
                       n \in 2 .. budget}

Values(ql) == UNION {Range(ql[k]) : k \in 1 .. Len(ql)}

\* pd.factorize numbers the concepts that occur 0, 1, 2, ... without a gap
QuestionLists == {ql \in Datasets(MaxRows) : ql # <<>> /\ Values(ql) = Idx(Cardinality(Values(ql)))}

\* the training subset random_split draws: any set of students
Splits(sn) == {SortedSeq(S) : S \in SUBSET Idx(sn)}

\* the concept-id universe: strings of three digit characters, the first
\* giving the sort order and the last two the locality key
KeySteps == {1, 3}
KcId(i, step) == <<i, (step * i) \div 10, (step * i) % 10>>
Universe(n, step) == [i \in 1 .. n |-> KcId(i - 1, step)]
AllIds == Range(Universe(MaxConcepts, 1))

RECURSIVE SeqsUpTo(_, _)
SeqsUpTo(S, n) == IF n = 0 THEN {<<>>} ELSE SeqsUpTo(S, n - 1) \cup [1 .. n -> S]

GtTables == SeqsUpTo([from : AllIds, to : AllIds], MaxGt)

\* relation tables over the whole universe: row k links concept k to the
\* concept d places on, for the first m concepts
GtChains(kc) ==
    {[k \in 1 .. m |-> [from |-> kc[k], to |-> kc[((k - 1 + d) % Len(kc)) + 1]]] :
        m \in {1, Len(kc)}, d \in {0, 1}}

HmmTables == SeqsUpTo([hmm_direction : {"forward", "backward"}, before : AllIds, after : AllIds], MaxGt)

RelLens == {TopK - 1, TopK + 1}

\* rows before = kc[i], after = the concepts d places apart from kc[i] on
ErfRows(kc, i, d, len) ==
    [k \in 1 .. len |-> [before |-> kc[i], after |-> kc[((i - 1 + d * k) % Len(kc)) + 1]]]

RECURSIVE ErfTables(_, _)
ErfTables(kc, i) ==
    IF i > Len(kc) THEN {<<>>}
    ELSE {rows \o rest : rows \in {ErfRows(kc, i, d, len) : d \in {0, 1}, len \in RelLens},
                         rest \in ErfTables(kc, i + 1)}

\* two rows per target with aucs a, rel columns 1..len, the last target's
\* rows kept or not
FirTable(kc, a, d, len, last) ==
    [k \in 1 .. (2 * last) |->
        LET i == ((k - 1) \div 2) + 1
            r == ((k - 1) % 2) + 1
        IN [target |-> kc[i], auc |-> a[r],
            rel |-> [c \in 1 .. len |-> kc[((i - 1 + (r - 1) + d[r] * c) % Len(kc)) + 1]]]]

FirTables(kc) ==
    {FirTable(kc, a, d, len, last) :
        a \in {<<1, 2>>, <<2, 1>>, <<2, 2>>}, d \in {0, 1} \X {0, 1},
        len \in RelLens, last \in {Len(kc) - 1, Len(kc)}}

\* files of m rows, each row m times the same value
DktFiles(m) == [1 .. m -> {[c \in 1 .. m |-> v] : v \in {Zero, One, Rat(1, m)}}]

TransitionTypes == {"Transition", "My2Hop", "My2HopD"}

InitTransition(type) ==
    /\ graph_type = type
    /\ pc = "count"
    /\ question_list \in QuestionLists
    /\ seq_len_list = [k \in 1 .. Len(question_list) |-> Len(question_list[k])]
    /\ student_num = Len(seq_len_list)
    /\ concept_num = Cardinality(Values(question_list))
    /\ indices \in Splits(student_num)
    /\ IF type = "Transition" THEN kcs = NoInput
       ELSE kcs \in {Universe(concept_num, step) : step \in KeySteps}
    /\ IF type = "My2HopD" THEN gt \in GtChains(kcs) ELSE gt = NoInput
    /\ dkt_file = NoInput
    /\ graph = NoInput

InitRelation(type) ==
    /\ graph_type = type
    /\ pc = "call"
    /\ question_list = NoInput
    /\ seq_len_list = NoInput
    /\ student_num = 0
    /\ indices = NoInput
    /\ graph = NoInput
    /\ CASE type = "DKT" ->
              /\ concept_num \in 1 .. MaxConcepts
              /\ dkt_file \in DktFiles(concept_num) \cup DktFiles(concept_num + 1)
              /\ kcs = NoInput
              /\ gt = NoInput
         [] type = "MyGraph" ->
              /\ concept_num = MaxConcepts
              /\ dkt_file = NoInput
              /\ kcs = NoInput
              /\ gt \in GtTables
         [] type = "MyHMM" ->
              /\ concept_num \in {MaxConcepts - 1, MaxConcepts}
              /\ dkt_file = NoInput
              /\ kcs = Universe(concept_num, 1)
              /\ gt \in HmmTables
         [] type = "MyERF" ->
              /\ concept_num = MaxConcepts
              /\ dkt_file = NoInput
              /\ kcs = Universe(concept_num, 1)
              /\ gt \in ErfTables(kcs, 1)
         [] type = "MyFIR" ->
              /\ concept_num = MaxConcepts
              /\ dkt_file = NoInput
              /\ kcs = Universe(concept_num, 1)
              /\ gt \in FirTables(kcs)

NoAlt ==
    /\ question_list_alt = NoInput
    /\ seq_len_list_alt = NoInput
    /\ graph_alt = NoInput

NoLoad ==
    /\ table = NoInput
    /\ df = NoInput
    /\ use_binary = TRUE
    /\ res_len = 2
    /\ feature_list = NoInput
    /\ answer_list = NoInput
    /\ batch = NoInput
    /\ feature_pad = NoInput
    /\ question_pad = NoInput
    /\ answer_pad = NoInput

GraphInit ==
    /\ NoAlt
    /\ NoLoad
    /\ \/ \E type \in TransitionTypes : InitTransition(type)
       \/ \E type \in {"DKT", "MyGraph", "MyHMM", "MyERF", "MyFIR"} : InitRelation(type)

(***************************************************************************)
(* The builders, step by step                                              *)
(***************************************************************************)
inputs == <<graph_type, question_list, seq_len_list, indices, student_num,
            concept_num, kcs, gt, dkt_file, alt_vars, load_vars>>

\* lines 142-152, 271-281, 316-326
Count ==
    /\ pc = "count"
    /\ graph' = CountTransitions(question_list, seq_len_list, indices, student_num, concept_num)
    /\ pc' = "fill_diagonal"
    /\ UNCHANGED inputs

\* lines 153, 282, 327
FillDiagonal ==
    /\ pc = "fill_diagonal"
    /\ graph' = fill_diagonal(graph, concept_num)
    /\ pc' = CASE graph_type = "Transition" -> "row_inv"
               [] graph_type = "My2Hop" -> "binarize"
               [] graph_type = "My2HopD" -> "two_hop"
    /\ UNCHANGED inputs

\* lines 155-166
RowInverse ==
    /\ pc = "row_inv"
    /\ graph' = TransitionNormalize(graph, concept_num)
    /\ pc' = "done"
    /\ UNCHANGED inputs

\* lines 284-287 (My2Hop), 349-352 (My2HopD)
BinarizeStep ==
    /\ pc = "binarize"
    /\ graph' = Binarize(graph, Shape(graph))
    /\ pc' = IF graph_type = "My2Hop" THEN "two_hop" ELSE "normalize"
    /\ UNCHANGED inputs

\* lines 290-302, 330-342
TwoHop ==
    /\ pc = "two_hop"
    /\ graph' = TwoHopLoop(graph, concept_num, Len(kcs) - 1, kcs)
    /\ pc' = IF graph_type = "My2Hop" THEN "normalize" ELSE "add_relation"
    /\ UNCHANGED inputs

\* lines 344-346
AddRelation ==
    /\ pc = "add_relation"
    /\ LET d == normed_adj_graph(gt)
       IN IF CanAdd(concept_num, Shape(d))
          THEN /\ graph' = MatAdd(graph, concept_num, d, Shape(d))
               /\ pc' = "binarize"
          ELSE /\ graph' = graph
               /\ pc' = "failed"
    /\ UNCHANGED inputs

\* lines 305-311, 355-361
Normalize ==
    /\ pc = "normalize"
    /\ graph' = NormalizeRows(graph, Shape(graph))
    /\ pc' = "done"
    /\ UNCHANGED inputs

\* lines 169-173
LoadDkt ==
    /\ pc = "call"
    /\ graph_type = "DKT"
    /\ IF ShapeOk(dkt_file, concept_num)
       THEN /\ graph' = build_dkt_graph(dkt_file, concept_num)
            /\ pc' = "done"
       ELSE /\ graph' = graph
            /\ pc' = "failed"
    /\ UNCHANGED inputs

\* lines 176-191
BuildMyGraph ==
    /\ pc = "call"
    /\ graph_type = "MyGraph"
    /\ graph' = normed_adj_graph(gt)
    /\ pc' = "done"
    /\ UNCHANGED inputs

\* lines 194-215
BuildHMM ==
    /\ pc = "call"
    /\ graph_type = "MyHMM"
    /\ IF EdgesKnown(kcs, hmm_edges(gt))
       THEN /\ graph' = normed_adj_hmm_graph(gt, kcs)
            /\ pc' = "done"
       ELSE /\ graph' = graph
            /\ pc' = "failed"
    /\ UNCHANGED inputs

\* lines 219-239
BuildERF ==
    /\ pc = "call"
    /\ graph_type = "MyERF"
    /\ IF TopKnown(kcs, erf_rels(gt, kcs))
       THEN /\ graph' = normed_adj_ERF_graph(gt, kcs)
            /\ pc' = "done"
       ELSE /\ graph' = graph
            /\ pc' = "failed"
    /\ UNCHANGED inputs

\* lines 243-266
BuildFIR ==
    /\ pc = "call"
    /\ graph_type = "MyFIR"
    /\ IF (\A i \in 1 .. Len(kcs) : HasRow(gt, kcs[i])) /\ TopKnown(kcs, best_sets(gt, kcs))
       THEN /\ graph' = normed_adj_FIR_graph(gt, kcs)
            /\ pc' = "done"
       ELSE /\ graph' = graph
            /\ pc' = "failed"
    /\ UNCHANGED inputs

GraphNext ==
    \/ Count
    \/ FillDiagonal
    \/ RowInverse
    \/ BinarizeStep
    \/ TwoHop
    \/ AddRelation
    \/ Normalize
    \/ LoadDkt
    \/ BuildMyGraph
    \/ BuildHMM
    \/ BuildERF
    \/ BuildFIR

SpecGraph == GraphInit /\ [][GraphNext]_vars


(***************************************************************************)
(* load_dataset, lines 53-100                                              *)
(***************************************************************************)
\* a missing cell of the kc_uid column
NaN == <<>>

\* line 62: df.dropna(subset=['kc_uid'])
HasSkill(r) == r.kc_uid # NaN
dropna(rows) == SelectSeq(rows, HasSkill)

\* line 65: df.groupby('knowre_user_id').filter(lambda q: len(q) > 1)
GroupLen(rows, u) == Cardinality({k \in 1 .. Len(rows) : rows[k].knowre_user_id = u})
\* a filter that keeps the users with a single row
KeepGroupAny(rows, u) == GroupLen(rows, u) > 0
KeepGroup(rows, u) == GroupLen(rows, u) > 1
filter_single(rows) ==
    LET Kept(r) == KeepGroup(rows, r.knowre_user_id)
    IN SelectSeq(rows, Kept)

\* line 69: pd.factorize(df['kc_uid'], sort=True)
factorize(rows) ==
    LET uniques == SortedStrs({rows[k].kc_uid : k \in 1 .. Len(rows)})
    IN [k \in 1 .. Len(rows) |-> index(uniques, rows[k].kc_uid)]

\* a cross-feature that multiplies by 2 whatever res_len is
skill_with_answer_by_two(skill, accuracy, ub, rl) ==
    IF ub THEN skill * 2 + accuracy ELSE skill * 2 + accuracy - 1

\* a cross-feature that subtracts 1 under both encodings
skill_with_answer_minus_one(skill, accuracy, ub, rl) ==
    IF ub THEN skill * 2 + accuracy - 1 ELSE skill * rl + accuracy - 1

\* lines 73-76
skill_with_answer(skill, accuracy, ub, rl) ==
    IF ub THEN skill * 2 + accuracy ELSE skill * rl + accuracy - 1

\* df.groupby('knowre_user_id'): the groups by ascending key, rows in order
group_keys(rows) == SortedSeq({rows[k].knowre_user_id : k \in 1 .. Len(rows)})
group(rows, u) ==
    LET Mine(r) == r.knowre_user_id = u
    IN SelectSeq(rows, Mine)

\* lines 85-89: what get_data appends to each list for one group
get_feature(series) == [k \in 1 .. Len(series) |-> series[k].skill_with_answer]
get_question(series) == [k \in 1 .. Len(series) |-> series[k].skill]
get_answer(series) == [k \in 1 .. Len(series) |-> IF series[k].accuracy = 1 THEN 1 ELSE 0]
get_seq_len(series) == Len(series)

(***************************************************************************)
(* pad_collate, lines 26-34                                                *)
(***************************************************************************)
MaxLen(seqs) ==
    IF seqs = <<>> THEN 0
    ELSE CHOOSE m \in {Len(seqs[b]) : b \in 1 .. Len(seqs)} :
            \A b \in 1 .. Len(seqs) : Len(seqs[b]) <= m

\* a pad_sequence left with its default padding_value of 0
pad_sequence_default(seqs, v) ==
    [b \in 1 .. Len(seqs) |->
        [t \in 1 .. MaxLen(seqs) |-> IF t <= Len(seqs[b]) THEN seqs[b][t] ELSE 0]]

\* pad_sequence(seqs, batch_first=True, padding_value=v)
pad_sequence(seqs, v) ==
    [b \in 1 .. Len(seqs) |->
        [t \in 1 .. MaxLen(seqs) |-> IF t <= Len(seqs[b]) THEN seqs[b][t] ELSE v]]

\* zip(*batch) of the samples KTDataset.__getitem__ returns
samples(list, b) == [k \in 1 .. Len(b) |-> list[b[k] + 1]]

(***************************************************************************)
(* The interaction tables load_dataset is run on                           *)
(***************************************************************************)
Users == {1, 2}
KcUids == {KcId(1, 3), KcId(2, 3)}
Accuracies == {0, 1, 2}
Encodings == {<<TRUE, 2>>, <<FALSE, 2>>, <<FALSE, 3>>}

\* tables of a few rows with any cells
SmallTables ==
    SeqsUpTo([knowre_user_id : Users, kc_uid : KcUids \cup {NaN}, accuracy : Accuracies],
             MaxTableRows)

\* a table of n rows, the rows of a user together, user u + 1 starting
\* where cut says; concept and accuracy alternate from a and c on, and row
\* `missing` (if any) has no concept
PatternTable(n, cut, a, c, missing) ==
    [k \in 1 .. n |->
        [knowre_user_id |-> 1 + Cardinality({j \in 1 .. (k - 1) : cut[j]}),
         kc_uid |-> IF k = missing THEN NaN ELSE KcId(1 + ((k + a) % 2), 3),
         accuracy |-> c + (k % 2)]]

PatternTables ==
    UNION {{PatternTable(n, cut, a, c, missing) :
                cut \in [1 .. (n - 1) -> BOOLEAN], a \in {0, 1}, c \in {0, 1},
                missing \in 0 .. n} :
           n \in (MaxTableRows + 1) .. MaxPadRows}

\* the batches a DataLoader hands to pad_collate: samples in any order
RECURSIVE Arrangements(_)
Arrangements(S) ==
    IF S = {} THEN {<<>>}
    ELSE UNION {{<<x>> \o rest : rest \in Arrangements(S \ {x})} : x \in S}

Batches(sn) == UNION {Arrangements(S) : S \in (SUBSET Idx(sn)) \ {{}}}

NoGraph ==
    /\ graph_type = "None"
    /\ indices = NoInput
    /\ concept_num = 0
    /\ kcs = NoInput
    /\ gt = NoInput
    /\ dkt_file = NoInput
    /\ graph = NoInput

LoadInit ==
    /\ NoAlt
    /\ NoGraph
    /\ pc = "dropna"
    /\ table \in SmallTables \cup PatternTables
    /\ df = table
    /\ \E e \in Encodings : use_binary = e[1] /\ res_len = e[2]
    /\ question_list = <<>>
    /\ feature_list = <<>>
    /\ answer_list = <<>>
    /\ seq_len_list = <<>>
    /\ student_num = 0
    /\ batch = NoInput
    /\ feature_pad = NoInput
    /\ question_pad = NoInput
    /\ answer_pad = NoInput

graph_vars == <<graph_type, indices, kcs, gt, dkt_file, graph, alt_vars>>
pads == <<batch, feature_pad, question_pad, answer_pad>>
lists == <<feature_list, question_list, answer_list, seq_len_list, student_num, concept_num>>

\* line 62
DropNa ==
    /\ pc = "dropna"
    /\ df' = dropna(df)
    /\ pc' = "filter"
    /\ UNCHANGED <<table, use_binary, res_len, lists, pads, graph_vars>>

\* line 65
FilterSingle ==
    /\ pc = "filter"
    /\ df' = filter_single(df)
    /\ pc' = "factorize"
    /\ UNCHANGED <<table, use_binary, res_len, lists, pads, graph_vars>>

\* line 69
Factorize ==
    /\ pc = "factorize"
    /\ df' = [k \in 1 .. Len(df) |-> [skill |-> factorize(df)[k]] @@ df[k]]
    /\ pc' = "cross"
    /\ UNCHANGED <<table, use_binary, res_len, lists, pads, graph_vars>>

\* lines 73-76
Cross ==
    /\ pc = "cross"
    /\ df' = [k \in 1 .. Len(df) |->
                [skill_with_answer |->
                    skill_with_answer(df[k].skill, df[k].accuracy, use_binary, res_len)]
                @@ df[k]]
    /\ pc' = "groupby"
    /\ UNCHANGED <<table, use_binary, res_len, lists, pads, graph_vars>>

\* lines 80-100; np.max of an empty seq_len_list raises
GroupBy ==
    /\ pc = "groupby"
    /\ LET keys == group_keys(df)
       IN /\ feature_list' = [g \in 1 .. Len(keys) |-> get_feature(group(df, keys[g]))]
          /\ question_list' = [g \in 1 .. Len(keys) |-> get_question(group(df, keys[g]))]
          /\ answer_list' = [g \in 1 .. Len(keys) |-> get_answer(group(df, keys[g]))]
          /\ seq_len_list' = [g \in 1 .. Len(keys) |-> get_seq_len(group(df, keys[g]))]
          /\ student_num' = Len(keys)
          /\ concept_num' = IF df = <<>> THEN 0
                            ELSE 1 + CHOOSE m \in {df[k].skill : k \in 1 .. Len(df)} :
                                        \A k \in 1 .. Len(df) : df[k].skill <= m
          /\ pc' = IF keys = <<>> THEN "failed" ELSE "loaded"
    /\ UNCHANGED <<table, df, use_binary, res_len, pads, graph_vars>>

\* lines 26-34, on a batch of a DataLoader of lines 112-114
PadCollate ==
    /\ pc = "loaded"
    /\ \E b \in Batches(student_num) :
          /\ batch' = b
          /\ feature_pad' = pad_sequence(samples(feature_list, b), PadValue)
          /\ question_pad' = pad_sequence(samples(question_list, b), PadValue)
          /\ answer_pad' = pad_sequence(samples(answer_list, b), PadValue)
    /\ pc' = "collated"
    /\ UNCHANGED <<table, df, use_binary, res_len, lists, graph_vars>>

LoadNext ==
    \/ DropNa
    \/ FilterSingle
    \/ Factorize
    \/ Cross
    \/ GroupBy
    \/ PadCollate

SpecLoad == LoadInit /\ [][LoadNext]_vars


(***************************************************************************)
(* Properties of load_dataset and pad_collate                              *)
(***************************************************************************)
\* the data frame holds the skill_with_answer column
Crossed == pc \in {"groupby", "loaded", "collated"}

\* get_data has run
Grouped == pc \in {"loaded", "collated"}

Base(skill) == skill * (IF use_binary THEN 2 ELSE res_len)

\* C3 as stated: under both encodings the cross-feature of a correct
\* response is the scheme base of its concept plus 1.
C3_CorrectIsBasePlusOne ==
    Crossed => \A k \in 1 .. Len(df) :
        df[k].accuracy = 1 => df[k].skill_with_answer = Base(df[k].skill) + 1

\* C3 amended: the cross-feature of a correct response is concept_index * 2
\* + 1 when use_binary is true and concept_index * res_len (the scheme base
\* itself) when use_binary is false.
C3_CorrectCode ==
    Crossed => \A k \in 1 .. Len(df) :
        df[k].accuracy = 1 =>
            df[k].skill_with_answer = Base(df[k].skill) + (IF use_binary THEN 1 ELSE 0)

C3_Witness ==
    /\ Crossed
    /\ ~use_binary
    /\ res_len = 3
    /\ \E k \in 1 .. Len(df) : df[k].accuracy = 1 /\ df[k].skill = 1

\* rows of the table of user u that hold a concept
ValidRows(u) ==
    Cardinality({k \in 1 .. Len(table) : table[k].knowre_user_id = u /\ table[k].kc_uid # NaN})

Retained == {u \in {table[k].knowre_user_id : k \in 1 .. Len(table)} : ValidRows(u) > 1}

\* C7: the retained students are those with more than one row that holds a
\* concept; a student's three sequences have that many entries, which
\* seq_len_list records, and student_num counts the retained students.
C7_RetainedStudents ==
    Grouped =>
        /\ student_num = Cardinality(Retained)
        /\ Len(seq_len_list) = student_num
        /\ Len(feature_list) = student_num
        /\ Len(question_list) = student_num
        /\ Len(answer_list) = student_num
        /\ \A g \in 1 .. student_num :
              /\ seq_len_list[g] = ValidRows(SortedSeq(Retained)[g])
              /\ seq_len_list[g] > 1
              /\ Len(feature_list[g]) = seq_len_list[g]
              /\ Len(question_list[g]) = seq_len_list[g]
              /\ Len(answer_list[g]) = seq_len_list[g]

\* a student dropped for a single valid row next to one kept in spite of a
\* row without concept
C7_Witness ==
    /\ Grouped
    /\ student_num = 1
    /\ \E u \in Users : ValidRows(u) = 1
    /\ \E k \in 1 .. Len(table) :
          table[k].kc_uid = NaN /\ table[k].knowre_user_id \in Retained

\* C4: the three matrices pad_collate returns have one row per sample and
\* the width of the longest sample; each holds the sample's values up to
\* its length and -1 from there on.
C4_PaddedBatch ==
    pc = "collated" =>
        LET width == MaxLen(samples(question_list, batch))
        IN /\ Len(feature_pad) = Len(batch)
           /\ Len(question_pad) = Len(batch)
           /\ Len(answer_pad) = Len(batch)
           /\ \E b \in 1 .. Len(batch) : seq_len_list[batch[b] + 1] = width
           /\ \A b \in 1 .. Len(batch) :
                 /\ seq_len_list[batch[b] + 1] <= width
                 /\ Len(feature_pad[b]) = width
                 /\ Len(question_pad[b]) = width
                 /\ Len(answer_pad[b]) = width
                 /\ \A t \in 1 .. width :
                       IF t <= seq_len_list[batch[b] + 1]
                       THEN /\ feature_pad[b][t] = feature_list[batch[b] + 1][t]
                            /\ question_pad[b][t] = question_list[batch[b] + 1][t]
                            /\ answer_pad[b][t] = answer_list[batch[b] + 1][t]
                       ELSE /\ feature_pad[b][t] = -1
                            /\ question_pad[b][t] = -1
                            /\ answer_pad[b][t] = -1

C4_Witness ==
    /\ pc = "collated"
    /\ Len(batch) = 2
    /\ seq_len_list[batch[1] + 1] < seq_len_list[batch[2] + 1]
    /\ feature_pad[1][Len(feature_pad[1])] = -1
    /\ feature_pad[2][Len(feature_pad[2])] > 0

\* the values the rows of the data frame put into the three channels
NonNegative(r) ==
    /\ r.skill_with_answer >= 0
    /\ r.skill >= 0
    /\ (IF r.accuracy = 1 THEN 1 ELSE 0) >= 0

\* a binary (0/1) or a 1-based (1..res_len) correctness code
Coded(r) == r.accuracy \in {0, 1} \/ r.accuracy \in 1 .. res_len

\* the code the encoding scheme in use is made for
CodedForScheme(r) ==
    IF use_binary THEN Coded(r) ELSE r.accuracy \in 1 .. res_len

PadOnlyAtPadding(Admissible(_)) ==
    pc = "collated" =>
        \A b \in 1 .. Len(batch) :
            (\A r \in Range(group(df, group_keys(df)[batch[b] + 1])) : Admissible(r)) =>
                \A t \in 1 .. Len(feature_pad[b]) :
                    (feature_pad[b][t] = -1 \/ question_pad[b][t] = -1 \/ answer_pad[b][t] = -1)
                        => t > seq_len_list[batch[b] + 1]

\* C5 as stated: under either encoding scheme a retained row with a binary
\* or 1-based correctness code puts no negative value into a channel, so -1
\* stands at padding positions only.
C5_SentinelOutOfRange ==
    /\ Crossed => \A k \in 1 .. Len(df) : Coded(df[k]) => NonNegative(df[k])
    /\ PadOnlyAtPadding(Coded)

\* C5 amended: a retained row puts no negative value into a channel when
\* its correctness code is binary or 1-based and use_binary is true, or
\* 1-based (1..res_len) and use_binary is false; for batches of such rows -1
\* stands at padding positions only.
C5_SentinelOutOfSchemeRange ==
    /\ Crossed => \A k \in 1 .. Len(df) : CodedForScheme(df[k]) => NonNegative(df[k])
    /\ PadOnlyAtPadding(CodedForScheme)

C5_Witness ==
    /\ pc = "collated"
    /\ ~use_binary
    /\ Len(batch) = 2
    /\ seq_len_list[batch[1] + 1] > seq_len_list[batch[2] + 1]
    /\ \A k \in 1 .. Len(df) : CodedForScheme(df[k])
    /\ \E k \in 1 .. Len(df) : df[k].skill_with_answer = 0

NonZeroCells(g) == {ij \in (DOMAIN g) \X (DOMAIN g) : g[ij[1]][ij[2]] # Zero}

(***************************************************************************)
(* build_transition_graph on two data sets that agree on the training      *)
(* split                                                                   *)
(***************************************************************************)
Reverse(q) == [k \in 1 .. Len(q) |-> q[Len(q) + 1 - k]]

\* other sequences a student outside the training split may have
AltSeqs(q, cn) == ([1 .. 2 -> Idx(cn)] \cup {Reverse(q)}) \ {q}

\* the data sets that differ from ql in one student outside the split
AltLists(ql, idx, cn) ==
    UNION {{[ql EXCEPT ![i + 1] = q] : q \in AltSeqs(ql[i + 1], cn)} :
           i \in Idx(Len(ql)) \ Range(idx)}

PairInit ==
    /\ NoLoad
    /\ graph_type = "Transition"
    /\ pc = "pair_count"
    /\ question_list \in QuestionLists
    /\ seq_len_list = [k \in 1 .. Len(question_list) |-> Len(question_list[k])]
    /\ student_num = Len(seq_len_list)
    /\ concept_num = Cardinality(Values(question_list))
    /\ indices \in Splits(student_num)
    /\ question_list_alt \in AltLists(question_list, indices, concept_num)
    /\ seq_len_list_alt = [k \in 1 .. Len(question_list_alt) |-> Len(question_list_alt[k])]
    /\ kcs = NoInput
    /\ gt = NoInput
    /\ dkt_file = NoInput
    /\ graph = NoInput
    /\ graph_alt = NoInput

pair_inputs == <<graph_type, question_list, seq_len_list, indices, student_num,
                 concept_num, kcs, gt, dkt_file, question_list_alt,
                 seq_len_list_alt, load_vars>>

\* lines 142-152, for the call of line 121 on either data set
CountBoth ==
    /\ pc = "pair_count"
    /\ graph' = CountTransitions(question_list, seq_len_list, indices,
                                 student_num, concept_num)
    /\ graph_alt' = CountTransitions(question_list_alt, seq_len_list_alt, indices,
                                     student_num, concept_num)
    /\ pc' = "pair_fill_diagonal"
    /\ UNCHANGED pair_inputs

\* line 153
FillDiagonalBoth ==
    /\ pc = "pair_fill_diagonal"
    /\ graph' = fill_diagonal(graph, concept_num)
    /\ graph_alt' = fill_diagonal(graph_alt, concept_num)
    /\ pc' = "pair_row_inv"
    /\ UNCHANGED pair_inputs

\* lines 155-166
RowInverseBoth ==
    /\ pc = "pair_row_inv"
    /\ graph' = TransitionNormalize(graph, concept_num)
    /\ graph_alt' = TransitionNormalize(graph_alt, concept_num)
    /\ pc' = "done"
    /\ UNCHANGED pair_inputs

PairNext ==
    \/ CountBoth
    \/ FillDiagonalBoth
    \/ RowInverseBoth

SpecPair == PairInit /\ [][PairNext]_vars

\* C6: build_transition_graph returns the same matrix for two data sets
\* that agree on the training split, whatever the other students' sequences.
C6_TrainingSplitOnly ==
    pc = "done" => graph = graph_alt

\* a student outside the split whose second sequence holds a transition
\* absent from the matrix, next to a matrix that holds some transition
C6_Witness ==
    /\ pc = "done"
    /\ NonZeroCells(graph) # {}
    /\ \E i \in Idx(student_num) \ Range(indices) :
          /\ question_list_alt[i + 1] # question_list[i + 1]
          /\ \E k \in 1 .. (Len(question_list_alt[i + 1]) - 1) :
                /\ question_list_alt[i + 1][k] # question_list_alt[i + 1][k + 1]
                /\ graph[question_list_alt[i + 1][k]][question_list_alt[i + 1][k + 1]] = Zero

(***************************************************************************)
(* Properties of the graph builders                                        *)
(***************************************************************************)
Width(row) == Cardinality(DOMAIN row)

ZeroOrStochastic(row) ==
    \/ \A j \in DOMAIN row : row[j] = Zero
    \/ SumTo(row, Width(row)) = One

Near(kc, h, i) == Abs(LastTwoInt(kc[h + 1]) - LastTwoInt(kc[i + 1])) < Locality

\* the binarized training transition graph the two-hop builders start from
Original == BinarizedTransitions(question_list, seq_len_list, indices, student_num, concept_num)

\* C1 as stated: whatever the builder, every row of the returned matrix is
\* all-zero or sums to exactly 1.
C1_EveryBuilderNormalizes ==
    pc = "done" => \A i \in DOMAIN graph : ZeroOrStochastic(graph[i])

\* C1 amended: every row of the matrix returned by Transition, MyGraph,
\* MyHMM, MyERF, MyFIR, My2Hop and My2HopD is all-zero or sums to exactly 1;
\* build_dkt_graph returns the file's matrix as it is.
C1_ComputedGraphsNormalized ==
    (pc = "done" /\ graph_type # "DKT") => \A i \in DOMAIN graph : ZeroOrStochastic(graph[i])

C1_Witness ==
    /\ pc = "done"
    /\ graph_type = "My2Hop"
    /\ \E i \in DOMAIN graph : \A j \in DOMAIN graph : graph[i][j] = Zero
    /\ \E i \in DOMAIN graph : Cardinality({j \in DOMAIN graph : graph[i][j] # Zero}) >= 2

NoSelfLoopRelation == \A k \in 1 .. Len(gt) : gt[k].from # gt[k].to

\* C2: the matrices returned by build_transition_graph, My2Hop and My2HopD
\* (relation graph without self-loop) have a zero diagonal.
C2_ZeroDiagonal ==
    (/\ pc = "done"
     /\ \/ graph_type \in {"Transition", "My2Hop"}
        \/ (graph_type = "My2HopD" /\ NoSelfLoopRelation))
    => \A i \in DOMAIN graph : graph[i][i] = Zero

\* C8: My2Hop links h to i whenever the original graph holds h->p and p->i
\* and the locality keys of h and i are less than 6 apart, for every concept
\* i, concept 0 included (stated for h other than i).
C8_EveryConceptExpanded ==
    (pc = "done" /\ graph_type = "My2Hop") =>
        \A h \in Idx(concept_num), p \in Idx(concept_num), i \in Idx(concept_num) :
            (h # i /\ Original[h][p] # Zero /\ Original[p][i] # Zero /\ Near(kcs, h, i))
                => graph[h][i] # Zero

\* C9: the nonzero cells of My2HopD are those of My2Hop on the same
\* arguments together with those of the relation graph (stated for relation
\* graphs of the data set's shape).
C9_DaekyoIsTwoHopPlusRelation ==
    (pc = "done" /\ graph_type = "My2HopD" /\ Shape(normed_adj_graph(gt)) = concept_num) =>
        NonZeroCells(graph) =
            NonZeroCells(two_hop_transition_graph(question_list, seq_len_list, indices,
                                             student_num, concept_num, kcs))
            \cup NonZeroCells(normed_adj_graph(gt))

\* C10: every nonzero cell (h, i) of the My2Hop matrix is an edge of the
\* original graph or closes a two-hop path h->p->i of the original graph
\* between concepts whose locality keys are less than 6 apart (stated for h
\* other than i).
C10_AtMostTwoHops ==
    (pc = "done" /\ graph_type = "My2Hop") =>
        \A ij \in NonZeroCells(graph) :
            \/ ij[1] = ij[2]
            \/ Original[ij[1]][ij[2]] # Zero
            \/ \E p \in Idx(concept_num) :
                  /\ Original[ij[1]][p] # Zero
                  /\ Original[p][ij[2]] # Zero
                  /\ Near(kcs, ij[1], ij[2])

====
